---- MODULE Spec2Model ----
(***************************************************************************)
(* Model of XyTimeData (src/src/charts/xytime.rs): the animatable line     *)
(* chart's construction (sorting, cumulative ranges), its playback clock   *)
(* (start/stop/toggle/seek/speed, the mutating position read) and the      *)
(* index lookup done by draw.                                              *)
(*                                                                         *)
(* Units.  An Instant is an integer number of clock ticks and a Duration   *)
(* a natural number of ticks.  An f32 number of seconds is an integer      *)
(* number of f32 units, F32_PER_TICK of which make one tick, so that the   *)
(* conversion f32 -> Duration loses what is below the Duration resolution. *)
(* Speeds and coordinates are finite numbers (no NaN, no infinity).        *)
(***************************************************************************)
EXTENDS Integers, Sequences, FiniteSets, TLC

VARIABLES
    samples,         \* the argument of XyTimeData::new
    points,          \* self.points: (x, y) in time order
    times,           \* self.times
    ranges,          \* self.ranges: cumulative (x range, y range)
    config,          \* the render snapshot held by self.chart
    playback_start,  \* Option<Instant>
    pause_start,     \* Option<Instant>
    playback_speed,  \* f32
    search_impl,     \* which slice::binary_search_by the build links
    clock,           \* what Instant::now() returns
    panicked,        \* a call has panicked (slice index out of range)
    hist,            \* the last calls made on the widget, oldest first
    mark             \* a position read right before a toggle or a speed change

vars == <<samples, points, times, ranges, config, playback_start, pause_start,
          playback_speed, search_impl, clock, panicked, hist, mark>>

----------------------------------------------------------------------------
(* Bounds of the model *)

MaxClock == 4
MaxSkew == 1
MaxSeekTicks == 2
MaxSpeed == 2
MaxLen == 3
MaxT == 2

----------------------------------------------------------------------------
(* Constants of the program *)

MIN_DELTA == 1
F32_MAX == 99
F32_MIN == -99
F32_PER_TICK == 3

----------------------------------------------------------------------------
(* Option<T> *)

None == <<>>
Some(v) == <<v>>
Unwrap(o) == o[1]

Min(a, b) == IF a <= b THEN a ELSE b
Max(a, b) == IF a >= b THEN a ELSE b

----------------------------------------------------------------------------
(* std::time *)

\* Instant::duration_since saturates to zero
DurationSince(later, earlier) == Max(0, later - earlier)

\* Duration::from_secs_f32 rounds to the nearest representable Duration
FromSecsF32(secs) == (2 * secs + F32_PER_TICK) \div (2 * F32_PER_TICK)

\* Duration::as_secs_f32
AsSecsF32(d) == d * F32_PER_TICK

----------------------------------------------------------------------------
(* XyTimeData::new *)

RECURSIVE InsertByTime(_, _)
InsertByTime(sorted, p) ==
    IF sorted = <<>> THEN <<p>>
    ELSE IF sorted[Len(sorted)][3] <= p[3] THEN Append(sorted, p)
    ELSE Append(InsertByTime(SubSeq(sorted, 1, Len(sorted) - 1), p), sorted[Len(sorted)])

\* points.sort_by(time): a stable sort
RECURSIVE SortByTime(_)
SortByTime(s) ==
    IF s = <<>> THEN <<>>
    ELSE InsertByTime(SortByTime(SubSeq(s, 1, Len(s) - 1)), s[Len(s)])

NewTimes(sorted) == [i \in 1..Len(sorted) |-> sorted[i][3]]
NewPoints(sorted) == [i \in 1..Len(sorted) |-> <<sorted[i][1], sorted[i][2]>>]

\* one pass of the loop with min and max exchanged on y
RangeStepSwapped(acc, p) ==
    <<Min(acc[1], p[1]), Max(acc[2], p[1]), Max(acc[3], p[2]), Min(acc[4], p[2])>>

\* one pass of the loop: acc is <<min_x, max_x, min_y, max_y>>
RangeStep(acc, p) ==
    <<Min(acc[1], p[1]), Max(acc[2], p[1]), Min(acc[3], p[2]), Max(acc[4], p[2])>>

RECURSIVE RangeAcc(_, _)
RangeAcc(pts, i) ==
    IF i = 0 THEN <<F32_MAX, F32_MIN, F32_MAX, F32_MIN>>
    ELSE RangeStep(RangeAcc(pts, i - 1), pts[i])

\* ranges[i] = (min_x..max_x, min_y..max_y) after the i-th point
NewRanges(pts) ==
    [i \in 1..Len(pts) |->
        LET acc == RangeAcc(pts, i)
        IN  <<<<acc[1], acc[2]>>, <<acc[3], acc[4]>>>>]

NewConfig(pts, rgs) == [points |-> pts, range |-> rgs[Len(rgs)]]

----------------------------------------------------------------------------
(* Accessors *)

StartTime == times[1]
EndTime == times[Len(times)]
IsPlaying == playback_start # None /\ pause_start = None

\* Stopped / Playing / Paused as seen through playback_start and pause_start
StateOf(ps, pz) ==
    IF ps = None THEN "Stopped" ELSE IF pz = None THEN "Playing" ELSE "Paused"
PlayState == StateOf(playback_start, pause_start)

----------------------------------------------------------------------------
(* History of calls: observers of the program, not part of its state *)

Call(name, arg, ret, elapsed, index) ==
    [name |-> name, arg |-> arg, ret |-> ret, elapsed |-> elapsed,
     index |-> index, pre |-> PlayState]

\* the last two entries are kept
Push(h, c) == IF Len(h) < 2 THEN Append(h, c) ELSE Append(Tail(h), c)

NoMark == [kind |-> "none", pos |-> None, at |-> None]
Last(h) == h[Len(h)]

----------------------------------------------------------------------------
(* slice::binary_search_by, as draw calls it: the probe is compared with    *)
(* the time.  Which of equal elements is found depends on the standard      *)
(* library the build links; both published algorithms are modelled.         *)

Ok(i) == [ok |-> TRUE, index |-> i]
Err(i) == [ok |-> FALSE, index |-> i]

\* the comparator with its operands exchanged
CmpReversed(probe, time) ==
    IF time < probe THEN "Less" ELSE IF time > probe THEN "Greater" ELSE "Equal"

\* the comparator |probe| probe.partial_cmp(&time)
Cmp(probe, time) ==
    IF probe < time THEN "Less" ELSE IF probe > time THEN "Greater" ELSE "Equal"

\* indices are 0-based as in the source; s[i + 1] is the element at index i
RECURSIVE SearchLeftRight(_, _, _, _)
SearchLeftRight(s, time, left, right) ==
    IF left < right
    THEN LET mid == left + (right - left) \div 2
             cmp == Cmp(s[mid + 1], time)
         IN  IF cmp = "Less" THEN SearchLeftRight(s, time, mid + 1, right)
             ELSE IF cmp = "Greater" THEN SearchLeftRight(s, time, left, mid)
             ELSE Ok(mid)
    ELSE Err(left)

RECURSIVE SearchBaseSize(_, _, _, _)
SearchBaseSize(s, time, base, size) ==
    IF size > 1
    THEN LET half == size \div 2
             mid == base + half
         IN  SearchBaseSize(s, time,
                            IF Cmp(s[mid + 1], time) = "Greater" THEN base ELSE mid,
                            size - half)
    ELSE LET cmp == Cmp(s[base + 1], time)
         IN  IF cmp = "Equal" THEN Ok(base)
             ELSE Err(base + (IF cmp = "Less" THEN 1 ELSE 0))

SearchImpls == {"left_right", "base_size"}

BinarySearchBy(impl, s, time) ==
    IF Len(s) = 0 THEN Err(0)
    ELSE IF impl = "left_right" THEN SearchLeftRight(s, time, 0, Len(s))
    ELSE SearchBaseSize(s, time, 0, Len(s))

\* the match of draw with the insertion point clamped to the last index
TimeIndexClamped(impl, ts, time) ==
    LET found == BinarySearchBy(impl, ts, time)
    IN  IF found.ok THEN found.index ELSE Min(Len(ts) - 1, found.index)

\* the match of draw: Ok(index) => index, Err(index) => self.points.len().min(index)
TimeIndex(impl, ts, time) ==
    LET found == BinarySearchBy(impl, ts, time)
    IN  IF found.ok THEN found.index ELSE Min(Len(ts), found.index)

----------------------------------------------------------------------------
(* XyTimeData::current_time, as functions of the state and of `now` *)

BaseDelta == EndTime - StartTime

\* an elapsed time that does not follow the clock while playing
ElapsedNoClock(ps, pz, now) ==
    AsSecsF32(IF pz # None THEN DurationSince(Unwrap(pz), Unwrap(ps))
              ELSE DurationSince(Unwrap(ps), Unwrap(ps)))

\* the wall-clock duration the match on pause_start yields, as f32 seconds
Elapsed(ps, pz, now) ==
    AsSecsF32(IF pz # None THEN DurationSince(Unwrap(pz), Unwrap(ps))
              ELSE DurationSince(now, Unwrap(ps)))

CurrentDelta(ps, pz, speed, now) == MIN_DELTA + speed * Elapsed(ps, pz, now)

\* the match on base_delta > current_delta
Finished(ps, pz, speed, now) == ~(BaseDelta > CurrentDelta(ps, pz, speed, now))

\* current_time without the comparison against the timeline length
CurrentTimeValueUnclamped(ps, pz, speed, now) ==
    IF ps # None THEN CurrentDelta(ps, pz, speed, now) + StartTime ELSE StartTime

\* the value current_time returns
CurrentTimeValue(ps, pz, speed, now) ==
    IF ps # None
    THEN IF Finished(ps, pz, speed, now) THEN EndTime
         ELSE CurrentDelta(ps, pz, speed, now) + StartTime
    ELSE StartTime

\* current_time that returns the end without stopping
CurrentTimeStartKeep(ps, pz, speed, now) == ps

\* playback_start after current_time
CurrentTimeStart(ps, pz, speed, now) ==
    IF ps # None /\ Finished(ps, pz, speed, now) THEN None ELSE ps

----------------------------------------------------------------------------
(* The values the mutators store *)

\* set_time that adds the duration to now instead of subtracting it
SetTimeStartAhead(now, time) == Some(now + FromSecsF32(time))

\* set_time: Instant::now() - Duration::from_secs_f32(time)
SetTimeStart(now, time) == Some(now - FromSecsF32(time))

\* set_time that leaves a stopped widget unpaused
SetTimePauseKeep(ps, pz, now) ==
    IF ps # None THEN (IF pz # None THEN Some(now) ELSE pz) ELSE pz

\* set_time: pause_start, from the second Instant::now()
SetTimePause(ps, pz, now) ==
    IF ps # None THEN (IF pz # None THEN Some(now) ELSE pz) ELSE Some(now)

\* start_playback that keeps the start instant of a widget already running
StartPlaybackStartKeep(ps, now) == IF ps # None THEN ps ELSE Some(now)

\* start_playback: playback_start
StartPlaybackStart(ps, now) == Some(now)

\* stop_playback that clears only pause_start
StopPlaybackStartKeep(ps) == ps

\* stop_playback: playback_start
StopPlaybackStart(ps) == None

\* toggle_playback that resumes without advancing the start instant
ToggleStartNoRebase(ps, pz, now) == IF ps # None THEN ps ELSE Some(now)

\* toggle_playback: playback_start (the None arm calls start_playback)
ToggleStart(ps, pz, now) ==
    IF ps # None
    THEN IF pz # None THEN Some(Unwrap(ps) + DurationSince(now, Unwrap(pz))) ELSE ps
    ELSE StartPlaybackStart(ps, now)

\* toggle_playback: pause_start
TogglePause(ps, pz, now) ==
    IF ps # None THEN (IF pz # None THEN None ELSE Some(now)) ELSE None

----------------------------------------------------------------------------
(* Inputs *)

SeekTimes == {0, 1} \cup {k * F32_PER_TICK : k \in 1..MaxSeekTicks}
Speeds == (-1)..MaxSpeed
\* (x, y) pairs that lower and raise each axis, separately and together
Coords == {<<0, 0>>, <<1, -1>>, <<-1, 1>>}
Triples == {<<c[1], c[2], t>> : c \in Coords, t \in 0..MaxT}
AllSamples == UNION {[1..n -> Triples] : n \in 1..MaxLen}

\* series the playback clock is exercised on: one sample; two samples given
\* out of order; three samples whose last two timestamps are equal
PlaySamples ==
    { <<<<0, 0, 0>>>>,
      <<<<1, 1, 2 * F32_PER_TICK>>, <<0, 0, 0>>>>,
      <<<<0, 1, 1>>, <<2, 0, 1 + 2 * F32_PER_TICK>>, <<1, 2, 1 + 2 * F32_PER_TICK>>>> }

----------------------------------------------------------------------------
(* Construction *)

Constructed(input) ==
    /\ samples = input
    /\ points = NewPoints(SortByTime(input))
    /\ times = NewTimes(SortByTime(input))
    /\ ranges = NewRanges(NewPoints(SortByTime(input)))
    /\ config = NewConfig(NewPoints(SortByTime(input)),
                          NewRanges(NewPoints(SortByTime(input))))
    /\ playback_start = None
    /\ pause_start = None
    /\ playback_speed = 1
    /\ clock = 0
    /\ panicked = FALSE
    /\ hist = <<>>
    /\ mark = NoMark

Init ==
    /\ search_impl \in SearchImpls
    /\ \E input \in PlaySamples : Constructed(input)

InitNew ==
    /\ search_impl \in SearchImpls
    /\ \E input \in AllSamples : Constructed(input)

\* ranges.last(): None for an empty series
LastRange(rgs) == IF rgs = <<>> THEN None ELSE Some(rgs[Len(rgs)])

\* a constructor that takes a default range instead of unwrapping
NewPanicsNever(rgs) == FALSE

\* ranges.last().unwrap() panics on None
NewPanics(rgs) == LastRange(rgs) = None

\* XyTimeData::new on any input, the empty one included: when it panics no
\* instance exists, and the fields only record what had been computed
ConstructedOrPanicked(input) ==
    LET pts == NewPoints(SortByTime(input))
        rgs == NewRanges(pts)
    IN  /\ samples = input
        /\ points = pts
        /\ times = NewTimes(SortByTime(input))
        /\ ranges = rgs
        /\ config = IF LastRange(rgs) = None THEN [points |-> pts, range |-> None]
                   ELSE NewConfig(pts, rgs)
        /\ panicked = NewPanics(rgs)
        /\ playback_start = None
        /\ pause_start = None
        /\ playback_speed = 1
        /\ clock = 0
        /\ hist = <<>>
        /\ mark = NoMark

InitCtor ==
    /\ search_impl \in SearchImpls
    /\ \E input \in AllSamples \cup {<<>>} : ConstructedOrPanicked(input)

data == <<samples, points, times, ranges, search_impl>>

----------------------------------------------------------------------------
(* Operations *)

\* the wall clock advances between two calls
Tick ==
    /\ ~panicked
    /\ clock < MaxClock
    /\ clock' = clock + 1
    /\ hist' = IF hist # <<>> /\ Last(hist).name = "tick" THEN hist
               ELSE Push(hist, Call("tick", None, None, None, None))
    /\ mark' = IF mark.kind = "paused" THEN mark ELSE NoMark
    /\ UNCHANGED <<data, panicked, config, playback_start, pause_start, playback_speed>>

\* set_time reads Instant::now() twice: skew ticks pass between the two reads
SetTime(time, skew) ==
    /\ ~panicked
    /\ clock + skew <= MaxClock
    /\ playback_start' = SetTimeStart(clock, time)
    /\ pause_start' = SetTimePause(playback_start, pause_start, clock + skew)
    /\ clock' = clock + skew
    /\ hist' = Push(hist, Call("seek", Some(time), None, None, None))
    /\ mark' = NoMark
    /\ UNCHANGED <<data, panicked, config, playback_speed>>

\* a position read while running, right before the speed is changed
SpeedMark ==
    IF playback_start # None /\ hist # <<>> /\ Last(hist).name \in {"read", "draw"}
    THEN [kind |-> "respeed", pos |-> Last(hist).ret, at |-> Some(clock)]
    ELSE NoMark

SetPlaybackSpeed(speed) ==
    /\ ~panicked
    /\ playback_speed' = speed
    /\ hist' = Push(hist, Call("set_speed", Some(speed), None, None, None))
    /\ mark' = SpeedMark
    /\ UNCHANGED <<data, panicked, config, playback_start, pause_start, clock>>

StartPlayback ==
    /\ ~panicked
    /\ playback_start' = StartPlaybackStart(playback_start, clock)
    /\ pause_start' = None
    /\ hist' = Push(hist, Call("start", None, None, None, None))
    /\ mark' = NoMark
    /\ UNCHANGED <<data, panicked, config, playback_speed, clock>>

StopPlayback ==
    /\ ~panicked
    /\ playback_start' = StopPlaybackStart(playback_start)
    /\ pause_start' = None
    /\ hist' = Push(hist, Call("stop", None, None, None, None))
    /\ mark' = NoMark
    /\ UNCHANGED <<data, panicked, config, playback_speed, clock>>

\* the mark follows a position read made right before a pausing toggle to the
\* resuming toggle
ToggleMark ==
    IF PlayState = "Playing"
    THEN IF hist # <<>> /\ Last(hist).name \in {"read", "draw"} /\ Last(hist).pre = "Playing"
         THEN [kind |-> "paused", pos |-> Last(hist).ret, at |-> Some(clock)]
         ELSE NoMark
    ELSE IF PlayState = "Paused" /\ mark.kind = "paused"
         THEN [kind |-> "resumed", pos |-> mark.pos, at |-> mark.at]
         ELSE NoMark

TogglePlayback ==
    /\ ~panicked
    /\ playback_start' = ToggleStart(playback_start, pause_start, clock)
    /\ pause_start' = TogglePause(playback_start, pause_start, clock)
    /\ hist' = Push(hist, Call("toggle", None, None, None, None))
    /\ mark' = ToggleMark
    /\ UNCHANGED <<data, panicked, config, playback_speed, clock>>

ReadMark(ps) == IF ps = None THEN NoMark ELSE mark

CurrentTime ==
    /\ ~panicked
    /\ playback_start' = CurrentTimeStart(playback_start, pause_start, playback_speed, clock)
    /\ hist' = Push(hist,
                    Call("read", None,
                         Some(CurrentTimeValue(playback_start, pause_start, playback_speed, clock)),
                         IF playback_start # None
                         THEN Some(Elapsed(playback_start, pause_start, clock)) ELSE None,
                         None))
    /\ mark' = ReadMark(playback_start')
    /\ UNCHANGED <<data, panicked, config, pause_start, playback_speed, clock>>

\* the snapshot draw installs: points[..=time_index] and ranges[time_index]
DrawConfig(time_index) ==
    [points |-> SubSeq(points, 1, time_index + 1), range |-> ranges[time_index + 1]]

Draw ==
    /\ ~panicked
    /\ IF playback_start # None
       THEN LET time == CurrentTimeValue(playback_start, pause_start, playback_speed, clock)
                time_index == TimeIndex(search_impl, times, time)
            IN  /\ playback_start' = CurrentTimeStart(playback_start, pause_start,
                                                      playback_speed, clock)
                /\ hist' = Push(hist,
                                Call("draw", None, Some(time),
                                     Some(Elapsed(playback_start, pause_start, clock)),
                                     Some(time_index)))
                /\ IF time_index < Len(points)
                   THEN config' = DrawConfig(time_index) /\ UNCHANGED panicked
                   ELSE panicked' = TRUE /\ UNCHANGED config
       ELSE /\ UNCHANGED <<playback_start, config, panicked>>
            /\ hist' = Push(hist, Call("draw", None, None, None, None))
    /\ mark' = ReadMark(playback_start')
    /\ UNCHANGED <<data, pause_start, playback_speed, clock>>

Next ==
    \/ Tick
    \/ \E time \in SeekTimes, skew \in 0..MaxSkew : SetTime(time, skew)
    \/ \E speed \in Speeds : SetPlaybackSpeed(speed)
    \/ StartPlayback
    \/ StopPlayback
    \/ TogglePlayback
    \/ CurrentTime
    \/ Draw

Spec == Init /\ [][Next]_vars

\* construction and lookup over every bounded series
NextNew ==
    \/ SetTime(0, 0)
    \/ Draw

SpecNew == InitNew /\ [][NextNew]_vars

\* construction from every bounded input, the empty one included
SpecCtor == InitCtor /\ [][NextNew]_vars

\* uninterrupted playback: the speed is chosen and playback is started only
\* while the widget is stopped, the clock advances, reads and draws are made
SetSpeedWhileStopped ==
    /\ playback_start = None
    /\ \E speed \in Speeds : SetPlaybackSpeed(speed)

StartWhileStopped ==
    /\ playback_start = None
    /\ StartPlayback

NextLive ==
    \/ Tick
    \/ SetSpeedWhileStopped
    \/ StartWhileStopped
    \/ CurrentTime
    \/ Draw

\* the clock keeps advancing and the host keeps drawing or reading
SpecLive ==
    /\ Init
    /\ [][NextLive]_vars
    /\ WF_vars(Tick)
    /\ WF_vars(CurrentTime \/ Draw)

----------------------------------------------------------------------------
(* Vocabulary of the properties *)

Reads == {"read", "draw"}

\* the last call and the one before it, with no tick in between
LastTwo(first, second) ==
    /\ Len(hist) = 2
    /\ hist[1].name \in first
    /\ hist[2].name \in second

\* the transition table of the widget
Table(pre, name) ==
    CASE name = "start" -> "Playing"
      [] name = "stop" -> "Stopped"
      [] name = "toggle" -> (IF pre = "Playing" THEN "Paused" ELSE "Playing")
      [] name = "seek" -> (IF pre = "Playing" THEN "Playing" ELSE "Paused")

\* the position that corresponds to an unscaled elapsed time e
PositionAt(e) ==
    IF BaseDelta > e + MIN_DELTA THEN StartTime + e + MIN_DELTA ELSE EndTime

QueryTimes == (StartTime - 1)..(EndTime + 1)

\* 0-based index of the last timestamp <= q (q is not below the first one)
GreatestLE(ts, q) ==
    CHOOSE i \in 0..(Len(ts) - 1) :
        /\ ts[i + 1] <= q
        /\ \A j \in 0..(Len(ts) - 1) : ts[j + 1] <= q => j <= i

SetMin(S) == CHOOSE m \in S : \A n \in S : m <= n
SetMax(S) == CHOOSE m \in S : \A n \in S : m >= n

\* a is a range that contains the range b
Contains(a, b) == a[1] <= b[1] /\ b[2] <= a[2]

----------------------------------------------------------------------------
(* C1: after start, stop, toggle or seek the playback state is the one the  *)
(* transition table gives for the state the call was made in:               *)
(* start -> Playing; stop -> Stopped; toggle: Stopped -> Playing,           *)
(* Playing -> Paused, Paused -> Playing; seek: Stopped -> Paused,           *)
(* Playing -> Playing, Paused -> Paused.                                    *)
C1_TransitionTable ==
    (hist # <<>> /\ Last(hist).name \in {"start", "stop", "toggle", "seek"})
        => /\ PlayState = Table(Last(hist).pre, Last(hist).name)
           /\ IsPlaying <=> (Table(Last(hist).pre, Last(hist).name) = "Playing")

C1_Witness ==
    /\ LastTwo({"seek"}, {"toggle"})
    /\ hist[1].pre = "Stopped"
    /\ hist[2].pre = "Paused"
    /\ PlayState = "Playing"

(* C2: a position read made at the instant of start() has elapsed = 0 and   *)
(* returns timeline start plus the epsilon floor (timeline end when the     *)
(* timeline is not longer than the epsilon), whatever the state and the     *)
(* seek before the start.                                                   *)
C2_StartResetsElapsed ==
    LastTwo({"start"}, Reads)
        => /\ hist[2].elapsed = Some(0)
           /\ hist[2].ret = Some(PositionAt(0))

C2_Witness ==
    /\ LastTwo({"start"}, Reads)
    /\ hist[1].pre = "Paused"
    /\ clock > 0
    /\ BaseDelta > MIN_DELTA
    /\ hist[2].ret = Some(StartTime + MIN_DELTA)

(* C3: the elapsed time computed right after seek(t) is exactly t, and the  *)
(* position read is the one for t.                                          *)
C3_SeekThenRead ==
    LastTwo({"seek"}, Reads)
        => /\ hist[2].elapsed = hist[1].arg
           /\ hist[2].ret = Some(PositionAt(Unwrap(hist[1].arg)))

(* C4: the position read right after the resuming toggle equals the         *)
(* position read right before the pausing toggle, however long the pause.   *)
C4_PauseResumeContinuous ==
    (mark.kind = "resumed" /\ hist # <<>> /\ Last(hist).name \in Reads)
        => Last(hist).ret = mark.pos

C4_Witness ==
    /\ mark.kind = "resumed"
    /\ LastTwo({"toggle"}, Reads)
    /\ hist[2].ret = mark.pos
    /\ Unwrap(mark.pos) > StartTime + MIN_DELTA
    /\ clock > Unwrap(mark.at) + 1

(* C5: a position read made while running, once speed * elapsed has reached *)
(* the timeline length, returns timeline end and leaves is_playing() false; *)
(* is_playing() then stays false until a start, toggle or seek.             *)
C5_ReadFinishes ==
    (/\ hist # <<>>
     /\ Last(hist).name \in Reads
     /\ Last(hist).elapsed # None
     /\ playback_speed * Unwrap(Last(hist).elapsed) >= BaseDelta)
        => /\ Last(hist).ret = Some(EndTime)
           /\ ~IsPlaying
           /\ playback_start = None

C5_StaysStopped ==
    (/\ playback_start = None
     /\ hist' # <<>>
     /\ Last(hist').name \notin {"start", "toggle", "seek"})
        => ~IsPlaying'

C5_Completion == []C5_ReadFinishes /\ [][C5_StaysStopped]_vars

C5_Witness ==
    /\ LastTwo({"tick"}, Reads)
    /\ hist[2].pre = "Playing"
    /\ BaseDelta > 0
    /\ hist[2].ret = Some(EndTime)
    /\ ~IsPlaying

(* C6: every value a position read returns lies in                          *)
(* [timeline start, timeline end].                                          *)
C6_ReadInRange ==
    (hist # <<>> /\ Last(hist).name \in Reads /\ Last(hist).ret # None)
        => /\ StartTime <= Unwrap(Last(hist).ret)
           /\ Unwrap(Last(hist).ret) <= EndTime

(* C7: a position read while running, then set_speed with no time passing:  *)
(* the next read returns the same position.                                 *)
C7_SpeedNotRetroactive ==
    (mark.kind = "respeed" /\ hist # <<>> /\ Last(hist).name \in Reads)
        => Last(hist).ret = mark.pos

C9_IndexMonotone ==
    \A q1, q2 \in QueryTimes :
        q1 <= q2 => TimeIndex(search_impl, times, q1) <= TimeIndex(search_impl, times, q2)

C9_Witness ==
    /\ hist # <<>>
    /\ Last(hist).name = "draw"
    /\ Last(hist).index # None
    /\ \E q \in QueryTimes :
        /\ q < Unwrap(Last(hist).ret)
        /\ TimeIndex(search_impl, times, q) < Unwrap(Last(hist).index)
    /\ \E k \in 1..(Len(times) - 1) : times[k] = times[k + 1]

(* C10: the series is in time order and ranges[i] is the min/max of x and   *)
(* of y over points[0..=i], so each range contains the one before it.       *)
C10_RangesWiden ==
    /\ \A i \in 1..(Len(times) - 1) : times[i] <= times[i + 1]
    /\ \A v \in Triples :
        Cardinality({i \in 1..Len(samples) : samples[i] = v})
            = Cardinality({i \in 1..Len(times) :
                             <<points[i][1], points[i][2], times[i]>> = v})
    /\ Len(ranges) = Len(points)
    /\ \A i \in 1..Len(ranges) :
        /\ ranges[i][1] = <<SetMin({points[j][1] : j \in 1..i}),
                            SetMax({points[j][1] : j \in 1..i})>>
        /\ ranges[i][2] = <<SetMin({points[j][2] : j \in 1..i}),
                            SetMax({points[j][2] : j \in 1..i})>>
        /\ i > 1 => /\ Contains(ranges[i][1], ranges[i - 1][1])
                    /\ Contains(ranges[i][2], ranges[i - 1][2])

C10_Witness ==
    /\ Len(samples) = 3
    /\ samples[1][3] > samples[3][3]
    /\ ranges[1][1] # ranges[2][1]
    /\ ranges[2][2] # ranges[3][2]
    /\ config.range = ranges[3]

(* C11: construction from an empty sample sequence panics, so every widget  *)
(* that exists, and every widget a call was made on, has a non-empty        *)
(* series: start_time, end_time and draw never see an empty one.            *)
C11_EmptyFailsAtConstruction ==
    /\ samples = <<>> => panicked
    /\ ~panicked => (times # <<>> /\ points # <<>> /\ ranges # <<>>)
    /\ hist # <<>> => times # <<>>

C11_Witness ==
    /\ samples = <<>>
    /\ panicked
    /\ hist = <<>>
    /\ ~ENABLED NextNew

(* C12: stop() leaves the widget Stopped with both instants cleared, and in *)
(* the Stopped state every tick, speed change, draw and position read       *)
(* leaves it Stopped, a position read returning timeline start: so it stays *)
(* until a start, toggle or seek, however far the clock advances.           *)
C12_StopStops ==
    (hist # <<>> /\ Last(hist).name = "stop")
        => (playback_start = None /\ pause_start = None)

C12_StoppedStays ==
    (/\ playback_start = None
     /\ hist' # <<>>
     /\ Last(hist').name \notin {"start", "toggle", "seek"})
        => /\ playback_start' = None
           /\ Last(hist').name = "read" => Last(hist').ret = Some(StartTime)
           /\ Last(hist').name = "draw" => (Last(hist').ret = None /\ config' = config)

C12_StopThenReads == []C12_StopStops /\ [][C12_StoppedStays]_vars

C12_Witness ==
    /\ LastTwo({"stop"}, {"read"})
    /\ hist[1].pre = "Paused"
    /\ hist[2].pre = "Stopped"
    /\ hist[2].ret = Some(StartTime)
    /\ playback_start = None
    /\ pause_start = None
    /\ clock > 0
    /\ BaseDelta > 0

(* C13: whenever both instants are present, pause_start >= playback_start.  *)
C13_PauseNotBeforeStart ==
    (playback_start # None /\ pause_start # None)
        => Unwrap(pause_start) >= Unwrap(playback_start)

C13_Witness ==
    /\ LastTwo({"toggle"}, {"seek"})
    /\ hist[1].pre = "Playing"
    /\ hist[2].pre = "Paused"
    /\ Unwrap(hist[2].arg) > 0
    /\ Unwrap(pause_start) > Unwrap(playback_start)

(* C14: a position read made in the Paused state leaves the widget Paused   *)
(* and one made in the Stopped state leaves it Stopped: only a read made    *)
(* while Playing changes the playback state.                                *)
C14_ReadKeepsPausedAndStopped ==
    (hist # <<>> /\ Last(hist).name \in Reads)
        => /\ Last(hist).pre = "Paused" => PlayState = "Paused"
           /\ Last(hist).pre = "Stopped" => PlayState = "Stopped"

(* C15: no draw panics, and the index a draw computes is a valid index of   *)
(* the series, the snapshot being the inclusive prefix up to it.            *)
C15_DrawIndexValid ==
    /\ ~panicked
    /\ (hist # <<>> /\ Last(hist).name = "draw" /\ Last(hist).index # None)
        => /\ 0 <= Unwrap(Last(hist).index)
           /\ Unwrap(Last(hist).index) <= Len(points) - 1
           /\ config = DrawConfig(Unwrap(Last(hist).index))

C15_Witness ==
    /\ LastTwo({"tick"}, {"draw"})
    /\ hist[2].pre = "Playing"
    /\ Len(points) = 3
    /\ Unwrap(hist[2].index) = Len(points) - 1
    /\ Len(config.points) = Len(points)
    /\ ~panicked

(* C16: on a single-sample series every position read made while the       *)
(* widget is running returns timeline end and leaves the widget Stopped,    *)
(* and the index a draw selects is 0.                                       *)
C16_SingleSampleFinishes ==
    (/\ Len(times) = 1
     /\ hist # <<>>
     /\ Last(hist).name \in Reads
     /\ Last(hist).pre # "Stopped")
        => /\ Last(hist).ret = Some(EndTime)
           /\ PlayState = "Stopped"
           /\ Last(hist).name = "draw" => Last(hist).index = Some(0)
           /\ ~panicked

(* C17: seek samples the clock once: after seek(t) made in the Stopped or   *)
(* the Paused state, pause_start - playback_start is the duration of t,     *)
(* also when the clock advances during the call.                            *)
C17_SeekSamplesClockOnce ==
    (hist # <<>> /\ Last(hist).name = "seek" /\ Last(hist).pre # "Playing")
        => Unwrap(pause_start) - Unwrap(playback_start)
               = FromSecsF32(Unwrap(Last(hist).arg))

(* C18: pause_start is never set while playback_start is unset: the pair    *)
(* is (None, None), (Some, None) or (Some, Some) in every reachable state.  *)
C18_ThreeShapes == playback_start = None => pause_start = None

(* C20: a draw whose position read returns timeline end installs the whole  *)
(* series with the last cumulative range, and draws made in the Stopped     *)
(* state leave the snapshot as it is.                                       *)
C20_FinalDrawShowsAll ==
    (/\ hist # <<>>
     /\ Last(hist).name = "draw"
     /\ Last(hist).ret = Some(EndTime))
        => /\ Last(hist).index = Some(Len(points) - 1)
           /\ config = [points |-> points, range |-> ranges[Len(ranges)]]

C20_StoppedDrawKeeps ==
    (playback_start = None /\ hist' # <<>> /\ Last(hist').name = "draw")
        => config' = config

C20_CompletionSnapshot == []C20_FinalDrawShowsAll /\ [][C20_StoppedDrawKeeps]_vars

(* C19: a widget that is Playing with a positive speed, with the clock      *)
(* advancing, reads and draws being made and no start, toggle, seek or      *)
(* set_speed intervening, eventually is Stopped by a read that returns      *)
(* timeline end.  The modelled clock stops at MaxClock, so the statement    *)
(* is made of playbacks whose end lies within the modelled clock range.     *)
C19_EndWithinClock ==
    MIN_DELTA + playback_speed * AsSecsF32(MaxClock - Unwrap(playback_start)) >= BaseDelta

C19_Playing == IsPlaying /\ playback_speed > 0 /\ C19_EndWithinClock

C19_Completed ==
    /\ PlayState = "Stopped"
    /\ ~IsPlaying
    /\ hist # <<>>
    /\ Last(hist).name \in Reads
    /\ Last(hist).pre = "Playing"
    /\ Last(hist).ret = Some(EndTime)

C19_EventuallyCompletes == C19_Playing ~> C19_Completed

C19_Witness ==
    /\ LastTwo({"tick"}, {"draw"})
    /\ hist[2].pre = "Playing"
    /\ hist[2].ret = Some(EndTime)
    /\ Unwrap(hist[2].index) = Len(points) - 1
    /\ Len(points) > 1
    /\ playback_speed = MaxSpeed
    /\ Unwrap(hist[2].elapsed) = AsSecsF32(1)
    /\ C19_Completed
====
